---- MODULE Spec2Model ----
(***************************************************************************)
(* Model of Data_analysis.py: the report pipeline generate_report and the  *)
(* helper functions it calls (split_app_blocks, find_daily_section,        *)
(* parse_daily_lines_to_rows, _last_numeric_token, _try_parse_date).       *)
(*                                                                         *)
(* A text is a sequence of symbols.  A symbol is a one-character string    *)
(* (a digit, "-", ".", ",", "%", " ", "\n"), a word of letters ("Total",   *)
(* "Sep", "to", ...), an ISO date ("2025-09-12") or a clock time           *)
(* ("0:00:00").  The text a sequence stands for is the concatenation of    *)
(* its symbols.  Every regular expression of the source is modelled by     *)
(* what it matches on that concatenation.                                  *)
(***************************************************************************)
EXTENDS Integers, Sequences, FiniteSets, TLC

VARIABLES pc, text, blocks, app_data, idx, plotted_any,
          combined_date_frames, merged, lines, pages

vars == <<pc, text, blocks, app_data, idx, plotted_any,
          combined_date_frames, merged, lines, pages>>

(***************************************************************************)
(* Symbols and character classes                                           *)
(***************************************************************************)
NL == "\n"
SP == " "

Digits == {"0", "1", "2", "3", "4", "5", "6", "7", "8", "9"}
Puncts == {"-", ".", ",", "%"}
IsoDates == {"2025-09-12", "2025-09-13", "2025-13-40"}
ClockTimes == {"0:00:00"}

\* \s of the regular expressions, and the characters str.strip() removes
IsSpace(c) == c \in {NL, SP}
\* \d (one character)
IsDigit(c) == c \in Digits
\* a symbol made of \w characters only: a digit or a word of letters
IsWordSym(c) == c \notin ({NL, SP} \cup Puncts \cup IsoDates \cup ClockTimes)
\* the first character of the symbol is a \w character (dates and times
\* begin with a digit)
BeginsWithWordChar(c) == c \notin ({NL, SP} \cup Puncts)

\* re.IGNORECASE on the letters of the words the patterns name
Fold(w) ==
    CASE w \in {"Total", "total", "TOTAL"} -> "total"
      [] w \in {"Data", "data", "DATA"} -> "data"
      [] w \in {"Daily", "daily", "DAILY"} -> "daily"
      [] w \in {"Hourly", "hourly", "HOURLY"} -> "hourly"
      [] w \in {"to", "To", "TO"} -> "to"
      [] OTHER -> w

SetMax(S) == CHOOSE x \in S : \A y \in S : y <= x
SetMin(S) == CHOOSE x \in S : \A y \in S : x <= y

RECURSIVE Flatten(_)
Flatten(ss) == IF ss = <<>> THEN <<>> ELSE Head(ss) \o Flatten(Tail(ss))

SeqsUpTo(S, n) == UNION {[1..k -> S] : k \in 0..n}

\* first position >= p that holds no white space (Len(s)+1 when none)
RECURSIVE SkipSpace(_, _)
SkipSpace(s, p) ==
    IF p <= Len(s) /\ IsSpace(s[p]) THEN SkipSpace(s, p + 1) ELSE p

\* the two words of a heading, one blank between them, at position q
PhraseAt(s, q, w1, w2) ==
    /\ q >= 1
    /\ q + 2 <= Len(s)
    /\ Fold(s[q]) = w1
    /\ s[q + 1] = SP
    /\ Fold(s[q + 2]) = w2

\* str.strip()
RECURSIVE StripLeft(_)
StripLeft(s) ==
    IF s # <<>> /\ IsSpace(Head(s)) THEN StripLeft(Tail(s)) ELSE s
RECURSIVE StripRight(_)
StripRight(s) ==
    IF s # <<>> /\ IsSpace(s[Len(s)])
    THEN StripRight(SubSeq(s, 1, Len(s) - 1)) ELSE s
Strip(s) == StripRight(StripLeft(s))

(***************************************************************************)
(* split_app_blocks                                                        *)
(***************************************************************************)
\* r'\n\s*Total Data\s*\n' matched at position p: the position after the
\* match, 0 when there is no match at p.  The first \s* must take the whole
\* run of white space (the heading follows it); the second, greedy, leaves
\* the last newline of the run after the heading to the final \n.
DelimMatchEnd(s, p) ==
    IF p > Len(s) \/ s[p] # NL THEN 0
    ELSE LET q == SkipSpace(s, p + 1) IN
         IF ~PhraseAt(s, q, "total", "data") THEN 0
         ELSE LET r == SkipSpace(s, q + 3)
                  N == {j \in (q + 3)..(r - 1) : s[j] = NL}
              IN IF N = {} THEN 0 ELSE SetMax(N) + 1

\* re.split: the pieces between the non-overlapping matches, left to right
RECURSIVE ReSplitDelim(_, _, _)
ReSplitDelim(s, start, p) ==
    IF p > Len(s) THEN <<SubSeq(s, start, Len(s))>>
    ELSE LET e == DelimMatchEnd(s, p) IN
         IF e # 0 THEN <<SubSeq(s, start, p - 1)>> \o ReSplitDelim(s, e, e)
         ELSE ReSplitDelim(s, start, p + 1)

\* the split without 'if len(parts) <= 1: return [text]'
split_app_blocks_NoFallback(t) == Tail(ReSplitDelim(t, 1, 1))

split_app_blocks(t) ==
    LET parts == ReSplitDelim(t, 1, 1) IN
    IF Len(parts) <= 1 THEN <<t>> ELSE Tail(parts)

(***************************************************************************)
(* find_daily_section                                                      *)
(***************************************************************************)
\* the newlines the \n of 'Daily Data\s*\n' can be, for the heading at p
DailyNewlines(s, p) ==
    IF ~PhraseAt(s, p, "daily", "data") THEN {}
    ELSE {j \in (p + 3)..(SkipSpace(s, p + 3) - 1) : s[j] = NL}

\* '\n\s*Hourly Data' matches at e
HourlyAt(s, e) ==
    /\ e <= Len(s)
    /\ s[e] = NL
    /\ PhraseAt(s, SkipSpace(s, e + 1), "hourly", "data")

\* the ends the lazy group can stop at when it begins at position g
HourlyFrom(s, g) == {e \in g..Len(s) : HourlyAt(s, e)}

\* the newlines after the heading at p from which the whole pattern matches
BoundedStarts(s, p) == {j \in DailyNewlines(s, p) : HourlyFrom(s, j + 1) # {}}

find_daily_section(block) ==
    LET P1 == {p \in 1..Len(block) : BoundedStarts(block, p) # {}}
        P2 == {p \in 1..Len(block) : DailyNewlines(block, p) # {}}
    IN IF P1 # {}
       THEN \* leftmost heading; \s* greedy; (.*?) lazy
            LET j == SetMax(BoundedStarts(block, SetMin(P1)))
                e == SetMin(HourlyFrom(block, j + 1))
            IN SubSeq(block, j + 1, e - 1)
       ELSE IF P2 # {}
       THEN LET j == SetMax(DailyNewlines(block, SetMin(P2)))
            IN SubSeq(block, j + 1, Len(block))
       ELSE <<>>

(***************************************************************************)
(* _last_numeric_token and _try_parse_date                                 *)
(***************************************************************************)
\* Python's None.  A value that may be None is kept as a sequence: <<>> for
\* None, <<v>> for the value v.
None == <<>>
\* pandas' NaT, and the Timestamp of a calendar date
NaT == <<"NaT">>
Timestamp(d) == <<d>>
\* a float: an integer number of 1/Scale units (exact for tokens of up to
\* three fractional digits)
Scale == 10 ^ 3
Float(v) == <<v>>

DigitVal(c) ==
    CASE c = "0" -> 0 [] c = "1" -> 1 [] c = "2" -> 2 [] c = "3" -> 3
      [] c = "4" -> 4 [] c = "5" -> 5 [] c = "6" -> 6 [] c = "7" -> 7
      [] c = "8" -> 8 [] c = "9" -> 9

RECURSIVE DecimalVal(_)
DecimalVal(ds) ==
    IF ds = <<>> THEN 0
    ELSE 10 * DecimalVal(SubSeq(ds, 1, Len(ds) - 1)) + DigitVal(ds[Len(ds)])

\* re.match(r'^-?\d+(\.\d+)?$', t): the whole token is an optional minus,
\* digits, and optionally a point and digits
IsNumericToken(t) ==
    LET u == IF t # <<>> /\ Head(t) = "-" THEN Tail(t) ELSE t
        dots == {i \in 1..Len(u) : u[i] = "."}
    IN /\ u # <<>>
       /\ \A i \in 1..Len(u) : IsDigit(u[i]) \/ u[i] = "."
       /\ Cardinality(dots) <= 1
       /\ \A i \in dots : 1 < i /\ i < Len(u)

\* float(t) of a token that matches
FloatOf(t) ==
    LET neg == Head(t) = "-"
        u == IF neg THEN Tail(t) ELSE t
        dots == {i \in 1..Len(u) : u[i] = "."}
        d == IF dots = {} THEN Len(u) + 1 ELSE SetMin(dots)
        ip == SubSeq(u, 1, d - 1)
        fp == SubSeq(u, d + 1, Len(u))
        mag == DecimalVal(ip) * Scale + (DecimalVal(fp) * Scale) \div (10 ^ Len(fp))
    IN Float(IF neg THEN 0 - mag ELSE mag)

\* the scan without reversed(): the leftmost token that matches
RECURSIVE _first_numeric_token(_)
_first_numeric_token(tokens) ==
    IF tokens = <<>> THEN None
    ELSE IF IsNumericToken(Head(tokens)) THEN FloatOf(Head(tokens))
         ELSE _first_numeric_token(Tail(tokens))

\* for t in reversed(tokens): the first that matches, as a float
RECURSIVE _last_numeric_token(_)
_last_numeric_token(tokens) ==
    IF tokens = <<>> THEN None
    ELSE IF IsNumericToken(tokens[Len(tokens)])
         THEN FloatOf(tokens[Len(tokens)])
         ELSE _last_numeric_token(SubSeq(tokens, 1, Len(tokens) - 1))

\* the day number of the ISO dates that are calendar dates ("2025-13-40"
\* matches the pattern of the rules and is none)
DayNumber == ("2025-09-12" :> 20250912) @@ ("2025-09-13" :> 20250913)

\* pd.to_datetime(s, dayfirst=False, errors='coerce')
_try_parse_date(s) == IF s \in DOMAIN DayNumber THEN Timestamp(s) ELSE NaT

(***************************************************************************)
(* parse_daily_lines_to_rows                                               *)
(***************************************************************************)
\* re.split(r'\s+', s): the pieces between the runs of white space (an
\* empty piece before a leading run and after a trailing one)
RECURSIVE SplitSpace(_, _)
SplitSpace(s, cur) ==
    IF s = <<>> THEN <<cur>>
    ELSE IF IsSpace(Head(s)) THEN <<cur>> \o SplitSpace(StripLeft(s), <<>>)
    ELSE SplitSpace(Tail(s), Append(cur, Head(s)))

\* str.splitlines(), up to empty lines (which the caller skips)
RECURSIVE SplitLines(_, _)
SplitLines(s, cur) ==
    IF s = <<>> THEN (IF cur = <<>> THEN <<>> ELSE <<cur>>)
    ELSE IF Head(s) = NL THEN <<cur>> \o SplitLines(Tail(s), <<>>)
    ELSE SplitLines(Tail(s), Append(cur, Head(s)))

\* number of characters of a symbol
CharLen(c) ==
    CASE c \in IsoDates -> 10
      [] c \in ClockTimes -> 7
      [] Fold(c) = "hourly" -> 6
      [] Fold(c) \in {"total", "daily"} -> 5
      [] Fold(c) = "data" -> 4
      [] c = "Sep" -> 3
      [] Fold(c) = "to" -> 2
      [] OTHER -> 1

\* s[:n] of a text: its symbols while they fit in n characters, then the
\* part of the next symbol that still fits
RECURSIVE TakeChars(_, _)
TakeChars(s, n) ==
    IF s = <<>> \/ n <= 0 THEN <<>>
    ELSE IF CharLen(Head(s)) <= n
         THEN <<Head(s)>> \o TakeChars(Tail(s), n - CharLen(Head(s)))
         ELSE <<[sym |-> Head(s), chars |-> n]>>

RECURSIVE TextLen(_)
TextLen(s) == IF s = <<>> THEN 0 ELSE CharLen(Head(s)) + TextLen(Tail(s))

\* \b after a symbol that ends in a digit, before position k
WordBoundaryAt(ln, k) == k > Len(ln) \/ ~BeginsWithWordChar(ln[k])

\* '(?:\s+\d{1,2}:\d{2}:\d{2})' from position k: the position after it, or 0
ClockEnd(ln, k) ==
    LET w == SkipSpace(ln, k) IN
    IF w = k \/ w > Len(ln) THEN 0
    ELSE IF ln[w] \in ClockTimes THEN w + 1
    ELSE IF IsDigit(ln[w]) /\ w + 1 <= Len(ln) /\ ln[w + 1] \in ClockTimes
         THEN w + 2
    ELSE 0

\* r'^(20\d{2}-\d{2}-\d{2})(?:\s+\d{1,2}:\d{2}:\d{2})?\b(.*)$': where group 2
\* begins, 0 when the line does not match
IsoRestStart(ln) ==
    IF ln = <<>> \/ ln[1] \notin IsoDates THEN 0
    ELSE LET te == ClockEnd(ln, 2) IN
         IF te # 0 /\ WordBoundaryAt(ln, te) THEN te
         ELSE IF WordBoundaryAt(ln, 2) THEN 2
         ELSE 0

\* first position >= p that holds no symbol of \w characters
RECURSIVE WordRunEnd(_, _)
WordRunEnd(ln, p) ==
    IF p <= Len(ln) /\ IsWordSym(ln[p]) THEN WordRunEnd(ln, p + 1) ELSE p

\* r'\d{1,2}\s+\w+' from position p with white space after it: the position
\* of that white space, or 0
DayMonthEnd(ln, p) ==
    LET n == IF p <= Len(ln) /\ IsDigit(ln[p])
             THEN IF p + 1 <= Len(ln) /\ IsSpace(ln[p + 1]) THEN 1
                  ELSE IF /\ p + 2 <= Len(ln)
                          /\ IsDigit(ln[p + 1])
                          /\ IsSpace(ln[p + 2]) THEN 2
                  ELSE 0
             ELSE 0
    IN IF n = 0 THEN 0
       ELSE LET w == SkipSpace(ln, p + n)
                e == WordRunEnd(ln, w)
            IN IF e > w /\ e <= Len(ln) /\ IsSpace(ln[e]) THEN e ELSE 0

\* r'^(\d{1,2}\s+\w+(?:\s+to\s+\d{1,2}\s+\w+)?)\s+(.*)$', re.I: the position
\* after group 1, or 0 when the line does not match
PhraseDateEnd(ln) ==
    LET e1 == DayMonthEnd(ln, 1) IN
    IF e1 = 0 THEN 0
    ELSE LET g == SkipSpace(ln, e1)
             e2 == IF /\ g + 1 <= Len(ln)
                      /\ Fold(ln[g]) = "to"
                      /\ IsSpace(ln[g + 1])
                   THEN DayMonthEnd(ln, SkipSpace(ln, g + 1))
                   ELSE 0
         IN IF e2 # 0 THEN e2 ELSE e1

\* re.search(r'(20\d{2}-\d{2}-\d{2})', ln): the position of the match, or 0
EmbeddedDateAt(ln) ==
    LET D == {k \in 1..Len(ln) : ln[k] \in IsoDates} IN
    IF D = {} THEN 0 ELSE SetMin(D)

\* ln.replace(date_str, '')
RemoveAll(ln, d) == SelectSeq(ln, LAMBDA c : c # d)

LABEL_LEN == 40

\* ln[:40] + ("..." if len(ln) > 40 else "")
RawLabel(ln) ==
    TakeChars(ln, LABEL_LEN) \o (IF TextLen(ln) > LABEL_LEN THEN <<"...">> ELSE <<>>)

Row(date_raw, date_parsed, rest, ivt, rule, ln, tokens) ==
    [date_raw |-> date_raw, date_parsed |-> date_parsed, rest |-> rest,
     IVT |-> ivt, rule |-> rule, line |-> ln, tokens |-> tokens]

\* The rows the four branches of the loop body append.  The fields rule,
\* line and tokens record which branch appended the row, the line it was
\* made from and the tokens handed to _last_numeric_token.
IsoRow(ln) ==
    LET rest == Strip(SubSeq(ln, IsoRestStart(ln), Len(ln)))
        tokens == IF rest # <<>> THEN SplitSpace(rest, <<>>) ELSE <<>>
    IN Row(<<ln[1]>>, _try_parse_date(ln[1]), rest,
           _last_numeric_token(tokens), "iso", ln, tokens)

PhraseRow_GuessedYear(ln) ==
    LET e == PhraseDateEnd(ln)
        rest == SubSeq(ln, SkipSpace(ln, e), Len(ln))
        tokens == SplitSpace(rest, <<>>)
    IN Row(SubSeq(ln, 1, e - 1), _try_parse_date("2025-09-12"), rest,
           _last_numeric_token(tokens), "phrase", ln, tokens)

PhraseRow(ln) ==
    LET e == PhraseDateEnd(ln)
        rest == SubSeq(ln, SkipSpace(ln, e), Len(ln))
        tokens == SplitSpace(rest, <<>>)
    IN Row(SubSeq(ln, 1, e - 1), None, rest,
           _last_numeric_token(tokens), "phrase", ln, tokens)

EmbeddedRow(ln) ==
    LET date_str == ln[EmbeddedDateAt(ln)]
        rest == Strip(RemoveAll(ln, date_str))
        tokens == SplitSpace(rest, <<>>)
    IN Row(<<date_str>>, _try_parse_date(date_str), rest,
           _last_numeric_token(tokens), "embedded", ln, tokens)

GenericRows(ln) ==
    LET tokens == SplitSpace(ln, <<>>)
        ivt == _last_numeric_token(tokens)
    IN IF ivt # None
       THEN <<Row(RawLabel(ln), None, ln, ivt, "generic", ln, tokens)>>
       ELSE <<>>

\* the body of the loop without the 'continue' of the date-phrase branch
RowsOfLine_NoContinue(ln) ==
    IF IsoRestStart(ln) # 0 THEN <<IsoRow(ln)>>
    ELSE (IF PhraseDateEnd(ln) # 0 THEN <<PhraseRow(ln)>> ELSE <<>>)
         \o (IF EmbeddedDateAt(ln) # 0 THEN <<EmbeddedRow(ln)>>
             ELSE GenericRows(ln))

\* the body of the loop when every branch appends only rows with a metric
RowsOfLine_MetricRequired(ln) ==
    SelectSeq(IF IsoRestStart(ln) # 0 THEN <<IsoRow(ln)>>
              ELSE IF PhraseDateEnd(ln) # 0 THEN <<PhraseRow(ln)>>
              ELSE IF EmbeddedDateAt(ln) # 0 THEN <<EmbeddedRow(ln)>>
              ELSE GenericRows(ln),
              LAMBDA r : r.IVT # None)

\* the body of the loop over the lines, for one stripped non-empty line:
\* the rows it appends (none or one)
RowsOfLine(ln) ==
    IF IsoRestStart(ln) # 0 THEN <<IsoRow(ln)>>
    ELSE IF PhraseDateEnd(ln) # 0 THEN <<PhraseRow(ln)>>
    ELSE IF EmbeddedDateAt(ln) # 0 THEN <<EmbeddedRow(ln)>>
    ELSE GenericRows(ln)

\* the lines of a text that the loop works on: stripped, empty ones skipped
StrippedLines(t) ==
    LET ls == SplitLines(t, <<>>)
        st == [k \in 1..Len(ls) |-> Strip(ls[k])]
    IN SelectSeq(st, LAMBDA ln : ln # <<>>)

RECURSIVE RowsOfLines(_)
RowsOfLines(ls) ==
    IF ls = <<>> THEN <<>> ELSE RowsOfLine(Head(ls)) \o RowsOfLines(Tail(ls))

parse_daily_lines_to_rows(daily_text) == RowsOfLines(StrippedLines(daily_text))

(***************************************************************************)
(* generate_report: the loop over the blocks                               *)
(***************************************************************************)
FALLBACK_HEAD == 5000

\* the head of the block taken only when the block has no 'Daily Data'
DailyTextOf_FallbackWithoutMarker(block) ==
    IF \A p \in 1..Len(block) : ~PhraseAt(block, p, "daily", "data")
    THEN TakeChars(block, FALLBACK_HEAD)
    ELSE find_daily_section(block)

\* daily_text = find_daily_section(block); if not daily_text:
\* daily_text = block[:5000]
DailyTextOf(block) ==
    LET daily_text == find_daily_section(block) IN
    IF daily_text = <<>> THEN TakeChars(block, FALLBACK_HEAD) ELSE daily_text

\* one element of app_data; pd.to_numeric leaves the floats of the IVT
\* column and turns None into NaN, kept as None.  daily_text records the
\* text the rows were parsed from.
AppEntry(i, block) ==
    [index |-> i, block |-> block, daily_text |-> DailyTextOf(block),
     rows |-> parse_daily_lines_to_rows(DailyTextOf(block))]

(***************************************************************************)
(* generate_report: charts and summary                                     *)
(***************************************************************************)
\* pandas notna() on the IVT column (None has become NaN) and on the
\* date_parsed column (None and NaT)
IvtNotNa(v) == v # None
DateNotNa(v) == v # None /\ v # NaT

\* the rows kept with a null metric counted as 0
DropNaIVT_FillZero(rows) ==
    [k \in 1..Len(rows) |->
        IF IvtNotNa(rows[k].IVT) THEN rows[k]
        ELSE [rows[k] EXCEPT !.IVT = Float(0)]]

\* df.dropna(subset=['IVT'])
DropNaIVT(rows) == SelectSeq(rows, LAMBDA r : IvtNotNa(r.IVT))

RECURSIVE Gcd(_, _)
Gcd(a, b) == IF b = 0 THEN a ELSE Gcd(b, a % b)

\* the quotient n/d (d > 0) of two integers, in lowest terms
Ratio(n, d) ==
    LET g == Gcd(IF n < 0 THEN 0 - n ELSE n, d) IN <<n \div g, d \div g>>

RECURSIVE SumSeq(_)
SumSeq(s) == IF s = <<>> THEN 0 ELSE Head(s) + SumSeq(Tail(s))

\* the IVT column as numbers
IvtValues(df) == [k \in 1..Len(df) |-> df[k].IVT[1]]

SeriesMean(vs) == Ratio(SumSeq(vs), Len(vs))
SeriesMedian(vs) ==
    LET o == SortSeq(vs, LAMBDA a, b : a < b)
        n == Len(o)
    IN IF n % 2 = 1 THEN Ratio(o[(n + 1) \div 2], 1)
       ELSE Ratio(o[n \div 2] + o[n \div 2 + 1], 2)
SeriesMin(vs) == Ratio(SetMin({vs[k] : k \in 1..Len(vs)}), 1)
SeriesMax(vs) == Ratio(SetMax({vs[k] : k \in 1..Len(vs)}), 1)

\* df['date_parsed'].notna().sum() > 0
HasDates(df) == \E k \in 1..Len(df) : DateNotNa(df[k].date_parsed)

\* df_sorted[['date_parsed','IVT']].dropna().groupby('date_parsed')['IVT']
\* .mean(), renamed and indexed by date: one value per date
DateFrame(index, df) ==
    LET tmp == SelectSeq(df, LAMBDA r : DateNotNa(r.date_parsed))
        dates == {tmp[k].date_parsed[1] : k \in 1..Len(tmp)}
    IN [column |-> index,
        dates |-> dates,
        mean |-> [d \in dates |->
                    SeriesMean(IvtValues(SelectSeq(tmp,
                        LAMBDA r : r.date_parsed[1] = d)))]]

\* the dates of a set in ascending order
SortedDates(D) ==
    LET n == Cardinality(D) IN
    CHOOSE s \in [1..n -> D] :
        \A a, b \in 1..n : a < b => DayNumber[s[a]] < DayNumber[s[b]]

NaN == <<>>
NoTable == [index |-> <<>>, columns |-> <<>>, cells |-> <<>>]

\* the dates of an inner join: those every frame has
JoinedDates_Inner(frames) ==
    {d \in frames[1].dates : \A c \in 1..Len(frames) : d \in frames[c].dates}

\* the dates of the merged index: pd.concat(..., axis=1) joins the frames
\* on the union of their indexes
JoinedDates(frames) == UNION {frames[c].dates : c \in 1..Len(frames)}

\* pd.concat(combined_date_frames, axis=1).sort_index()
ConcatFrames(frames) ==
    LET index == SortedDates(JoinedDates(frames)) IN
    [index |-> index,
     columns |-> [c \in 1..Len(frames) |-> frames[c].column],
     cells |-> [r \in 1..Len(index) |-> [c \in 1..Len(frames) |->
                  IF index[r] \in frames[c].dates
                  THEN frames[c].mean[index[r]] ELSE NaN]]]

\* 0.5 of (ivt > 0.5).any()
Threshold == Scale \div 2

Line(kind, app, val) == [kind |-> kind, app |-> app, val |-> val]

\* the lines the summary holds for one element of app_data
SummaryOf(ad) ==
    LET df == DropNaIVT(ad.rows) IN
    IF df = <<>> THEN <<>>
    ELSE LET ivt == IvtValues(df) IN
         <<Line("app", ad.index, <<>>),
           Line("rows", ad.index, <<Len(df)>>),
           Line("mean", ad.index, SeriesMean(ivt)),
           Line("median", ad.index, SeriesMedian(ivt)),
           Line("minmax", ad.index, <<SeriesMin(ivt), SeriesMax(ivt)>>)>>
         \o (IF \E k \in 1..Len(ivt) : ivt[k] > Threshold
             THEN <<Line("note_high", ad.index, <<>>)>> ELSE <<>>)
         \o (IF \A k \in 1..Len(ivt) : ivt[k] = 0
             THEN <<Line("note_zero", ad.index, <<>>)>> ELSE <<>>)
         \o <<Line("blank", ad.index, <<>>)>>

RECURSIVE Summaries(_)
Summaries(ads) ==
    IF ads = <<>> THEN <<>> ELSE SummaryOf(Head(ads)) \o Summaries(Tail(ads))

Recommendations ==
    <<Line("general", 0, <<>>), Line("advice_raw", 0, <<>>),
      Line("advice_ratio", 0, <<>>), Line("advice_anomaly", 0, <<>>),
      Line("advice_sample", 0, <<>>), Line("blank", 0, <<>>),
      Line("limitations", 0, <<>>)>>

ObservationLines(ads, plotted) ==
    <<Line("title", 0, <<>>), Line("rule", 0, <<>>)>>
    \o (IF ~plotted
        THEN <<Line("no_values", 0, <<>>), Line("provide_raw", 0, <<>>)>>
        ELSE Summaries(ads) \o Recommendations)

chunk_size == 45

Page(kind, app, x_label, first, last) ==
    [kind |-> kind, app |-> app, x_label |-> x_label,
     first |-> first, last |-> last]

\* for i in range(0, len(lines), chunk_size): one page per slice
TextPages(ls) ==
    LET n == (Len(ls) + chunk_size - 1) \div chunk_size IN
    [j \in 1..n |->
        LET last == IF j * chunk_size < Len(ls) THEN j * chunk_size ELSE Len(ls)
        IN Page("text", 0, "", (j - 1) * chunk_size + 1, last)]

(***************************************************************************)
(* The pipeline                                                            *)
(***************************************************************************)
\* the state after extract_pdf_text, for the extracted text t
Start(t) ==
    /\ pc = "split"
    /\ text = t
    /\ blocks = <<>>
    /\ app_data = <<>>
    /\ idx = 0
    /\ plotted_any = FALSE
    /\ combined_date_frames = <<>>
    /\ merged = NoTable
    /\ lines = <<>>
    /\ pages = <<>>

\* blocks = split_app_blocks(text)
SplitBlocks ==
    /\ pc = "split"
    /\ blocks' = split_app_blocks(text)
    /\ pc' = "process"
    /\ UNCHANGED <<text, app_data, idx, plotted_any, combined_date_frames,
                   merged, lines, pages>>

\* one turn of 'for i, block in enumerate(blocks, start=1)'
ProcessBlock ==
    /\ pc = "process"
    /\ Len(app_data) < Len(blocks)
    /\ app_data' = Append(app_data,
                          AppEntry(Len(app_data) + 1, blocks[Len(app_data) + 1]))
    /\ UNCHANGED <<pc, text, blocks, idx, plotted_any, combined_date_frames,
                   merged, lines, pages>>

\* the report is opened and the title page written
OpenReport ==
    /\ pc = "process"
    /\ Len(app_data) = Len(blocks)
    /\ pages' = <<Page("title", 0, "", 0, 0)>>
    /\ combined_date_frames' = <<>>
    /\ plotted_any' = FALSE
    /\ idx' = 1
    /\ pc' = "plot"
    /\ UNCHANGED <<text, blocks, app_data, merged, lines>>

\* one turn of the first 'for ad in app_data'
PlotApp ==
    /\ pc = "plot"
    /\ idx <= Len(app_data)
    /\ LET ad == app_data[idx]
           df == DropNaIVT(ad.rows)
       IN IF df = <<>>
          THEN UNCHANGED <<plotted_any, pages, combined_date_frames>>
          ELSE /\ plotted_any' = TRUE
               /\ pages' = Append(pages,
                     Page("app", ad.index,
                          IF HasDates(df) THEN "Date" ELSE "Row index", 0, 0))
               /\ combined_date_frames' =
                     IF HasDates(df)
                     THEN Append(combined_date_frames, DateFrame(ad.index, df))
                     ELSE combined_date_frames
    /\ idx' = idx + 1
    /\ UNCHANGED <<pc, text, blocks, app_data, merged, lines>>

\* 'if combined_date_frames:' after the loop
CombinedChart ==
    /\ pc = "plot"
    /\ idx > Len(app_data)
    /\ IF combined_date_frames # <<>>
       THEN /\ merged' = ConcatFrames(combined_date_frames)
            /\ pages' = Append(pages, Page("combined", 0, "Date", 0, 0))
       ELSE UNCHANGED <<merged, pages>>
    /\ pc' = "observe"
    /\ UNCHANGED <<text, blocks, app_data, idx, plotted_any,
                   combined_date_frames, lines>>

\* the observations page(s)
Observations ==
    /\ pc = "observe"
    /\ lines' = ObservationLines(app_data, plotted_any)
    /\ pages' = pages \o TextPages(ObservationLines(app_data, plotted_any))
    /\ pc' = "done"
    /\ UNCHANGED <<text, blocks, app_data, idx, plotted_any,
                   combined_date_frames, merged>>

Next ==
    \/ SplitBlocks
    \/ ProcessBlock
    \/ OpenReport
    \/ PlotApp
    \/ CombinedChart
    \/ Observations

(***************************************************************************)
(* Input texts                                                             *)
(***************************************************************************)
TextsOf(chunks, n) == {Flatten(cs) : cs \in SeqsUpTo(chunks, n)}

TotalData == <<"Total", SP, "Data">>
DailyData == <<"Daily", SP, "Data">>
HourlyData == <<"Hourly", SP, "Data">>

\* documents of several sections: a heading line or a data line per chunk
MaxDocLines == 5
DocChunks ==
    { <<NL>> \o TotalData \o <<NL>>,
      <<"2025-09-12", SP, "0", ".", "6", NL>>,
      <<"2025-09-12", SP, "0", NL>>,
      <<"x", SP, "2025-09-13", SP, "0", ".", "5", NL>>,
      <<"2025-09-13", SP, "x", NL>>,
      <<"1", "1", SP, "Sep", SP, "0", ".", "6", NL>>,
      <<"0", NL>> }
Init == \E t \in TextsOf(DocChunks, MaxDocLines) : Start(t)
Spec == Init /\ [][Next]_vars

\* texts around the block heading, in both cases
MaxSplitLen == 5
SplitChunks == {<<NL>>, <<SP>>, TotalData, <<"total", SP, "data">>, <<"x">>}
InitSplit == \E t \in TextsOf(SplitChunks, MaxSplitLen) : Start(t)
SpecSplit == InitSplit /\ [][Next]_vars

\* blocks around the section markers
MaxSectionLen == 5
SectionChunks == {<<NL>>, <<SP>>, DailyData, HourlyData, <<"5">>}
InitSection == \E t \in TextsOf(SectionChunks, MaxSectionLen) : Start(t)
SpecSection == InitSection /\ [][Next]_vars

\* lines of dates, date phrases, words and numbers
MaxRowLen == 4
RowChunks ==
    { <<"2025-09-12">>, <<SP, "0:00:00">>, <<"1", "1", SP, "Sep">>,
      <<SP, "to", SP, "1", "5", SP, "Sep">>, <<SP>>, <<"0", ".", "5">>,
      <<"x">>, <<NL>>, <<"-">> }
InitRows == \E t \in TextsOf(RowChunks, MaxRowLen) : Start(t)
SpecRows == InitRows /\ [][Next]_vars

\* one dated line of blank-separated tokens
MaxTokens == 3
TokenSamples ==
    { <<"5">>, <<"-", "5">>, <<"0", ".", "5">>, <<"0">>, <<"1", ",", "5">>,
      <<"0", ".", "5", "%">>, <<".", "5">>, <<"1", "e", "5">>, <<"x">>,
      <<"5", ".">> }
TokenLine(ts) ==
    <<"2025-09-12">> \o Flatten([k \in 1..Len(ts) |-> <<SP>> \o ts[k]])
InitTokens == \E ts \in SeqsUpTo(TokenSamples, MaxTokens) : Start(TokenLine(ts))
SpecTokens == InitTokens /\ [][Next]_vars

(***************************************************************************)
(* Properties                                                              *)
(***************************************************************************)
AppIndexes == 1..Len(app_data)
RowIndexes(ad) == 1..Len(ad.rows)

\* the heading 'Total Data' occurs somewhere in t
HasDelimiterPhrase(t) == \E q \in 1..Len(t) : PhraseAt(t, q, "total", "data")

\* C1: a non-empty text in which the phrase 'Total Data' does not occur is
\* split into exactly one block, the whole text.
C1_WholeTextIsTheOnlyBlock ==
    (pc # "split" /\ text # <<>> /\ ~HasDelimiterPhrase(text))
        => blocks = <<text>>

C1_Witness ==
    /\ pc = "process"
    /\ ~HasDelimiterPhrase(text)
    /\ Len(text) >= 3
    /\ \E q \in 1..Len(text) : text[q] = NL
    /\ blocks = <<text>>

\* a line that holds the heading and nothing else
IsDelimiterLine(ln) == Len(ln) = 3 /\ PhraseAt(ln, 1, "total", "data")

\* the positions, in ascending order, of the heading lines among ls
DelimiterLines(ls) ==
    LET P == {k \in 1..Len(ls) : IsDelimiterLine(ls[k])} IN
    CHOOSE s \in [1..Cardinality(P) -> P] :
        \A a, b \in 1..Cardinality(P) : a < b => s[a] < s[b]

\* C2: a text with k >= 1 heading lines 'Total Data' (in any case, each on a
\* line of its own) is split into exactly k blocks: the j-th block holds
\* the lines between the j-th heading line and the next one, so the text
\* before the first heading is dropped and no block holds a heading line.
C2_OneBlockPerDelimiterLine ==
    LET ls == StrippedLines(text)
        P == DelimiterLines(ls)
        k == Len(P)
    IN (pc # "split" /\ k >= 1) =>
          /\ Len(blocks) = k
          /\ \A j \in 1..k :
                StrippedLines(blocks[j]) =
                    SubSeq(ls, P[j] + 1,
                           IF j < k THEN P[j + 1] - 1 ELSE Len(ls))

\* a line that holds the marker and nothing else
IsMarkerLine(ln, w) == Len(ln) = 3 /\ PhraseAt(ln, 1, w, "data")
MarkerLines(ls, w) == {k \in 1..Len(ls) : IsMarkerLine(ls[k], w)}
MarkerPlaces(b, w) == {p \in 1..Len(b) : PhraseAt(b, p, w, "data")}

\* the marker 'Daily Data' occurs in the block
HasStartMarker(b) == MarkerPlaces(b, "daily") # {}

\* every 'Daily Data' and 'Hourly Data' of the block is a line of its own
MarkersOnOwnLines(b) ==
    \A w \in {"daily", "hourly"} :
        Cardinality(MarkerPlaces(b, w))
            = Cardinality(MarkerLines(StrippedLines(b), w))

\* the lines the two markers bound: after the first 'Daily Data' line, up
\* to the first 'Hourly Data' line that follows it, or to the end
MarkedLines(b) ==
    LET ls == StrippedLines(b)
        p == SetMin(MarkerLines(ls, "daily"))
        E == {h \in MarkerLines(ls, "hourly") : h > p}
    IN SubSeq(ls, p + 1, IF E = {} THEN Len(ls) ELSE SetMin(E) - 1)

\* C3: find_daily_section returns the text between the first 'Daily Data'
\* and the first 'Hourly Data' after it, everything after 'Daily Data'
\* when no 'Hourly Data' follows, and the empty text when there is no
\* 'Daily Data' (stated for blocks whose markers are lines of their own,
\* and compared line by line).
C3_SectionBetweenMarkers ==
    \A i \in AppIndexes :
        LET b == app_data[i].block IN
        /\ ~HasStartMarker(b) => find_daily_section(b) = <<>>
        /\ (HasStartMarker(b) /\ MarkersOnOwnLines(b)) =>
              StrippedLines(find_daily_section(b)) = MarkedLines(b)

\* the rule of the cascade that is first to match a line
FirstRule(ln) ==
    IF IsoRestStart(ln) # 0 THEN "iso"
    ELSE IF PhraseDateEnd(ln) # 0 THEN "phrase"
    ELSE IF EmbeddedDateAt(ln) # 0 THEN "embedded"
    ELSE "generic"

\* some blank-separated token of the text is a numeric literal
HasNumericToken(s) ==
    LET ts == SplitSpace(s, <<>>) IN \E k \in 1..Len(ts) : IsNumericToken(ts[k])

\* the line gives a record: a date rule matches it, or it holds a number
GivesRecord(ln) == FirstRule(ln) # "generic" \/ HasNumericToken(ln)

RowLines(ad) == [k \in RowIndexes(ad) |-> ad.rows[k].line]

\* C4: the records of a section are, in order, one record for each
\* non-empty line that gives a record (so never more records than lines),
\* and each record is made by the first rule, in the order ISO date at the
\* start, date phrase, ISO date inside, generic, that matches its line.
C4_FirstMatchingRuleOneRecordPerLine ==
    \A i \in AppIndexes :
        LET ad == app_data[i]
            ls == StrippedLines(ad.daily_text)
        IN /\ Len(ad.rows) <= Len(ls)
           /\ RowLines(ad) = SelectSeq(ls, GivesRecord)
           /\ \A k \in RowIndexes(ad) :
                LET r == ad.rows[k] IN
                /\ r.rule = FirstRule(r.line)
                /\ r.rule \in {"iso", "embedded"} =>
                      /\ r.date_raw = <<r.line[EmbeddedDateAt(r.line)]>>
                      /\ r.date_parsed # None
                /\ r.rule \in {"phrase", "generic"} => r.date_parsed = None
                /\ r.rule = "generic" => r.rest = r.line /\ r.IVT # None

C4_Witness ==
    /\ pc = "done"
    /\ \E i \in AppIndexes :
          LET ad == app_data[i] IN
          /\ Len(ad.rows) = 2
          /\ Len(StrippedLines(ad.daily_text)) = 2
          /\ ad.rows[1].rule = "iso"
          /\ EmbeddedDateAt(ad.rows[1].line) # 0
          /\ ad.rows[2].rule = "generic"

\* C5 as claimed: no record is made from a line that holds no numeric
\* token, whichever rule the line falls under.
C5_NoRecordWithoutNumericToken ==
    \A i \in AppIndexes : \A k \in RowIndexes(app_data[i]) :
        HasNumericToken(app_data[i].rows[k].line)

Count(seq, x) == Cardinality({k \in 1..Len(seq) : seq[k] = x})

\* C5, amended: a line that holds no numeric token gives no record when it
\* falls under the generic rule, and one record when a date rule matches
\* it; the metric of that record is null unless the text left when the
\* date is taken out holds a numeric token.
C5_NoRecordWithoutNumericTokenUnderGenericRule ==
    \A i \in AppIndexes :
        LET ad == app_data[i]
            ls == StrippedLines(ad.daily_text)
        IN /\ \A j \in 1..Len(ls) :
                ~HasNumericToken(ls[j]) =>
                    Count(RowLines(ad), ls[j]) =
                        IF FirstRule(ls[j]) = "generic" THEN 0
                        ELSE Count(ls, ls[j])
           /\ \A k \in RowIndexes(ad) :
                LET r == ad.rows[k] IN
                ~HasNumericToken(r.line) =>
                    /\ r.rule # "generic"
                    /\ (r.IVT = None) <=> ~HasNumericToken(r.rest)

C5_Witness ==
    /\ pc = "done"
    /\ \E i \in AppIndexes :
          LET ad == app_data[i] IN
          /\ Len(StrippedLines(ad.daily_text)) = 2
          /\ Len(ad.rows) = 1
          /\ ~HasNumericToken(ad.rows[1].line)
          /\ ad.rows[1].rule = "iso"
          /\ ad.rows[1].IVT = None

\* '<day> <month-name>', or that twice with 'to' between
IsDayMonth(ts) ==
    /\ Len(ts) = 2
    /\ Len(ts[1]) \in {1, 2}
    /\ \A k \in 1..Len(ts[1]) : IsDigit(ts[1][k])
    /\ ts[2] # <<>>
    /\ \A k \in 1..Len(ts[2]) : IsWordSym(ts[2][k])
IsDatePhrase(s) ==
    LET ts == SplitSpace(s, <<>>) IN
    \/ IsDayMonth(ts)
    \/ /\ Len(ts) = 5
       /\ IsDayMonth(SubSeq(ts, 1, 2))
       /\ Len(ts[3]) = 1 /\ Fold(ts[3][1]) = "to"
       /\ IsDayMonth(SubSeq(ts, 4, 5))

\* the records of an entry that have a parsed date and a metric
DatedRows(ad) ==
    SelectSeq(ad.rows, LAMBDA r : DateNotNa(r.date_parsed) /\ IvtNotNa(r.IVT))
DatesOf(ad) == {DatedRows(ad)[k].date_parsed[1] : k \in 1..Len(DatedRows(ad))}
ColumnsOf(m) == {m.columns[c] : c \in 1..Len(m.columns)}
IndexOf(m) == {m.index[r] : r \in 1..Len(m.index)}

\* C6: a record of the date-phrase rule has no parsed date and keeps the
\* phrase as its date text; the dates of the combined series are dates of
\* records of the two ISO rules only, and an entity whose records all come
\* from the date-phrase or the generic rule has no column in it.
C6_PhraseDatesStayOutOfCombinedSeries ==
    /\ \A i \in AppIndexes : \A k \in RowIndexes(app_data[i]) :
          LET r == app_data[i].rows[k] IN
          r.rule = "phrase" =>
              /\ r.date_parsed = None
              /\ IsDatePhrase(r.date_raw)
              /\ r.date_raw = SubSeq(r.line, 1, Len(r.date_raw))
    /\ pc \in {"observe", "done"} =>
          /\ \A i \in AppIndexes :
                (\A k \in RowIndexes(app_data[i]) :
                    app_data[i].rows[k].rule \in {"phrase", "generic"})
                    => i \notin ColumnsOf(merged)
          /\ \A d \in IndexOf(merged) :
                \E i \in AppIndexes : \E k \in RowIndexes(app_data[i]) :
                    LET r == app_data[i].rows[k] IN
                    /\ r.rule \in {"iso", "embedded"}
                    /\ r.date_parsed = Timestamp(d)
                    /\ r.IVT # None

C6_Witness ==
    /\ pc = "done"
    /\ merged # NoTable
    /\ \E i \in AppIndexes :
          /\ i \notin ColumnsOf(merged)
          /\ app_data[i].rows # <<>>
          /\ \A k \in RowIndexes(app_data[i]) :
                /\ app_data[i].rows[k].rule = "phrase"
                /\ app_data[i].rows[k].IVT # None

\* what float() gives for the tokens that are numeric literals, in 1/1000
LiteralValue ==
    (<<"5">> :> 5000) @@ (<<"-", "5">> :> (0 - 5000))
    @@ (<<"0", ".", "5">> :> 500) @@ (<<"0">> :> 0)

\* C7: the metric of a record is the value of the rightmost of its tokens
\* that is a numeric literal, and null when none of them is one; tokens
\* such as '1,5', '0.5%', '.5', '1e5' and '5.' never give a value.
C7_RightmostNumericLiteral ==
    \A i \in AppIndexes : \A k \in RowIndexes(app_data[i]) :
        LET r == app_data[i].rows[k]
            M == {j \in 1..Len(r.tokens) : r.tokens[j] \in DOMAIN LiteralValue}
        IN r.IVT = IF M = {} THEN None
                   ELSE Float(LiteralValue[r.tokens[SetMax(M)]])

C7_Witness ==
    /\ pc = "done"
    /\ \E i \in AppIndexes : \E k \in RowIndexes(app_data[i]) :
          LET r == app_data[i].rows[k] IN
          /\ r.tokens = <<<<"5">>, <<"0", ".", "5">>, <<"0", ".", "5", "%">>>>
          /\ r.IVT = Float(500)

\* the metrics of an entry that are not null
Metrics(ad) == IvtValues(SelectSeq(ad.rows, LAMBDA r : r.IVT # None))
LinesOf(i, kind) == SelectSeq(lines, LAMBDA l : l.app = i /\ l.kind = kind)
CountBelow(vs, x) == Cardinality({k \in 1..Len(vs) : vs[k] < x})
CountUpTo(vs, x) == Cardinality({k \in 1..Len(vs) : vs[k] <= x})
\* x is the value at place p of vs in ascending order
AtPlace(vs, x, p) == CountBelow(vs, x) < p /\ p <= CountUpTo(vs, x)
\* the pair q is the quotient n/d
IsQuotient(q, n, d) == q[2] > 0 /\ q[1] * d = n * q[2]

\* C8: the summary holds an entry for an entity exactly when one of its
\* records has a metric, in ascending order of the entities; its row count,
\* mean, median, minimum and maximum are those of the metrics that are not
\* null; it is flagged high exactly when a metric exceeds 0.5 and all-zero
\* exactly when every metric is 0.
C8_SummariesOverNonNullMetrics ==
    pc = "done" =>
        LET heads == SelectSeq(lines, LAMBDA l : l.kind = "app") IN
        /\ \A a, b \in 1..Len(heads) : a < b => heads[a].app < heads[b].app
        /\ \A i \in AppIndexes :
              LET vs == Metrics(app_data[i])
                  n == Len(vs)
              IN /\ Len(LinesOf(i, "app")) = IF n > 0 THEN 1 ELSE 0
                 /\ n > 0 =>
                      /\ LinesOf(i, "rows") = <<Line("rows", i, <<n>>)>>
                      /\ Len(LinesOf(i, "mean")) = 1
                      /\ IsQuotient(LinesOf(i, "mean")[1].val, SumSeq(vs), n)
                      /\ Len(LinesOf(i, "median")) = 1
                      /\ \E a, b \in 1..n :
                            /\ AtPlace(vs, vs[a], (n + 1) \div 2)
                            /\ AtPlace(vs, vs[b], n \div 2 + 1)
                            /\ IsQuotient(LinesOf(i, "median")[1].val,
                                          vs[a] + vs[b], 2)
                      /\ Len(LinesOf(i, "minmax")) = 1
                      /\ \E a, b \in 1..n :
                            /\ \A c \in 1..n : vs[a] <= vs[c] /\ vs[c] <= vs[b]
                            /\ LinesOf(i, "minmax")[1].val
                                  = <<<<vs[a], 1>>, <<vs[b], 1>>>>
                      /\ (LinesOf(i, "note_high") # <<>>)
                            <=> \E c \in 1..n : 2 * vs[c] > Scale
                      /\ (LinesOf(i, "note_zero") # <<>>)
                            <=> \A c \in 1..n : vs[c] = 0

C8_Witness ==
    /\ pc = "done"
    /\ \E i, j \in AppIndexes :
          /\ \E k \in RowIndexes(app_data[i]) : app_data[i].rows[k].IVT = None
          /\ Len(Metrics(app_data[i])) = 1
          /\ LinesOf(i, "note_high") # <<>>
          /\ LinesOf(i, "note_zero") = <<>>
          /\ app_data[j].rows # <<>>
          /\ LinesOf(j, "app") = <<>>

LinesOfText(t) == {StrippedLines(t)[k] : k \in 1..Len(StrippedLines(t))}

\* C10 as claimed: when the block holds the marker 'Daily Data' the head
\* of the block is not used, and every record is made from a line of the
\* located section (stated for blocks whose markers are lines of their
\* own).
C10_NoFallbackWhenStartMarkerOccurs ==
    \A i \in AppIndexes :
        LET ad == app_data[i] IN
        (HasStartMarker(ad.block) /\ MarkersOnOwnLines(ad.block)) =>
            \A k \in RowIndexes(ad) :
                ad.rows[k].line \in LinesOfText(find_daily_section(ad.block))

\* C10, amended: the head of the block is parsed exactly when the located
\* section is empty, which happens for blocks without the marker 'Daily
\* Data' and for blocks with it; when the located section is not empty,
\* it is what is parsed and every record is made from one of its lines.
C10_FallbackExactlyWhenSectionIsEmpty ==
    \A i \in AppIndexes :
        LET ad == app_data[i]
            section == find_daily_section(ad.block)
        IN /\ section = <<>> => ad.daily_text = TakeChars(ad.block, FALLBACK_HEAD)
           /\ section # <<>> =>
                /\ ad.daily_text = section
                /\ \A k \in RowIndexes(ad) : ad.rows[k].line \in LinesOfText(section)
           /\ ~HasStartMarker(ad.block) => section = <<>>

C10_Witness ==
    /\ pc = "done"
    /\ \E i \in AppIndexes :
          LET ad == app_data[i] IN
          /\ HasStartMarker(ad.block)
          /\ find_daily_section(ad.block) = <<>>
          /\ ad.daily_text = ad.block
          /\ ad.rows # <<>>

====
